---- MODULE Spec2Model ----
(***************************************************************************)
(* A model of py_mini_db (src/database.py): the pull-based operator tree   *)
(* TableScan / Filter / Project / Limit / Sort with its open / get_next /  *)
(* close protocol, driven by a caller that may invoke the three methods of *)
(* the root operator in any order.                                         *)
(*                                                                         *)
(* Text is a sequence of one-character strings, so that int(src) is a real *)
(* parse.  A cell value is tagged with its Python type ("int" / "str").    *)
(* A tree is the sequence of operators stacked over the TableScan: level 0 *)
(* is the TableScan, level i >= 1 is tree[i], the root is level Len(tree). *)
(***************************************************************************)
EXTENDS Integers, Sequences, FiniteSets, TLC

VARIABLES
    tree,      \* the operators stacked over the TableScan, bottom-up
    table,     \* the table file: exists, header (column definitions), records
    file,      \* TableScan.file: state "none" (None), "open" or "closed"; pos = lines read
    metadata,  \* TableScan.metadata: the column metadata stored so far, by position
    index,     \* per level: Limit.index / Sort.index
    extra,     \* per level: Sort.extra
    orphans,   \* file objects still open that no TableScan refers to any more
    releases,  \* how many times an operating-system handle has been released
    ret,       \* what the last call on the root returned or raised
    last,      \* the last call made on the root: "init", "open", "next", "close"
    ncalls,    \* calls made on the root so far
    emitted,   \* history, per level 0..Len(tree): rows get_next returned since the last root open()
    sig,       \* history, per level: outcome of the level's last get_next since the last root open()
    pulls,     \* history, per level: get_next calls made on the level since the last root open()
    opens,     \* history: root open() calls since construction or the last close()
    everOpened,\* history: open() has been called on the root
    closes,    \* history: consecutive close() calls the last call ends
    raised,    \* history, per level: the exception the level's last get_next raised, "" when none
    runs,      \* history: runs (open, get_next until exhausted, close) the driver has completed
    firstOut   \* history: the rows the root returned in the driver's first run

vars == <<tree, table, file, metadata, index, extra, orphans, releases,
          ret, last, ncalls, emitted, sig, pulls, opens, everOpened, closes,
          raised, runs, firstOut>>

----------------------------------------------------------------------------
(* Bounds *)

MaxRows == 2
MaxCalls == 4
MaxRuns == 2

----------------------------------------------------------------------------
(* Text and values *)

DigitChars == <<"0", "1", "2", "3", "4", "5", "6", "7", "8", "9">>

IsDigit(c) == \E d \in 1..10 : DigitChars[d] = c

DigitVal(c) == (CHOOSE d \in 1..10 : DigitChars[d] = c) - 1

RECURSIVE DigitsVal(_)
DigitsVal(s) ==
    IF s = <<>> THEN 0
    ELSE 10 * DigitsVal(SubSeq(s, 1, Len(s) - 1)) + DigitVal(s[Len(s)])

AllDigits(s) == Len(s) > 0 /\ \A k \in 1..Len(s) : IsDigit(s[k])

Unsigned(s) == IF Len(s) > 0 /\ s[1] \in {"-", "+"} THEN Tail(s) ELSE s

\* int(src) accepts an optional sign followed by decimal digits.
IsIntText(s) == AllDigits(Unsigned(s))

IntOfText(s) ==
    IF Len(s) > 0 /\ s[1] = "-" THEN 0 - DigitsVal(Tail(s)) ELSE DigitsVal(Unsigned(s))

IntVal(n) == [t |-> "int", v |-> n]
StrVal(s) == [t |-> "str", v |-> s]

\* Python's == on cell values: an int never equals a str.
ValEq(a, b) == a.t = b.t /\ a.v = b.v

----------------------------------------------------------------------------
(* Results of a call: a row, None, or a raised exception *)

NoRow == [metas |-> <<>>, cells |-> <<>>]

RowRes(r) == [kind |-> "row", row |-> r, err |-> ""]
NoneRes == [kind |-> "none", row |-> NoRow, err |-> ""]
Raise(e) == [kind |-> "error", row |-> NoRow, err |-> e]

----------------------------------------------------------------------------
(* Row model *)

\* CellMetadata.__init__: null = not is_null, and is_null defaults to False.
CellMetadata(name, data_type, value_size) ==
    [name |-> name, type |-> data_type, size |-> value_size, null |-> TRUE]

Row(metas, cells) == [metas |-> metas, cells |-> cells]

TypeTags == {"int", "char", "varchar", "datetime"}

\* DataType.from_string, on a recognised tag.
from_string(tag) ==
    CASE tag = "int" -> "INT"
      [] tag = "char" -> "CHAR"
      [] tag = "varchar" -> "VARCHAR"
      [] OTHER -> "DATETIME"

\* TableScan._convert: the exception it raises for src under cmd, "" when none.
ConvertError(src, cmd) ==
    IF cmd.type = "INT" /\ ~IsIntText(src) THEN "ValueError" ELSE ""

\* A conversion that keeps every field as the text it was read as.
Convert_verbatim(src, cmd) == StrVal(src)

\* TableScan._convert: the converted value.
Convert(src, cmd) ==
    IF cmd.type = "INT" THEN IntVal(IntOfText(src)) ELSE StrVal(src)

----------------------------------------------------------------------------
(* The state the operators read and write, passed through a call *)

Levels == 0..Len(tree)

Cur == [file |-> file, metadata |-> metadata, index |-> index, extra |-> extra,
        orphans |-> orphans, releases |-> releases,
        emitted |-> emitted, sig |-> sig, pulls |-> pulls, raised |-> raised]

Out(S, res) == [S |-> S, res |-> res]

\* History: level i's get_next was called and ended with res.
Note(i, o) ==
    LET S == o.S IN
    Out([S EXCEPT !.pulls[i] = @ + 1,
                  !.sig[i] = o.res.kind,
                  !.raised[i] = o.res.err,
                  !.emitted[i] = IF o.res.kind = "row" THEN Append(@, o.res.row) ELSE @],
        o.res)

----------------------------------------------------------------------------
(* TableScan *)

\* The exception the header's column definition col_def raises, "" when none.
ColDefError(col_def) ==
    IF Len(col_def) < 2 THEN "IndexError"
    ELSE IF col_def[2] \notin TypeTags THEN "Exception"
    ELSE IF Len(col_def) < 3 THEN "IndexError"
    ELSE IF ~IsIntText(col_def[3]) THEN "ValueError"
    ELSE ""

ColDef(col_def) == CellMetadata(col_def[1], from_string(col_def[2]), IntOfText(col_def[3]))

\* self.metadata[i] = cmd on the dict keyed by position.
StoreAt(m, i, cmd) == IF i <= Len(m) THEN [m EXCEPT ![i] = cmd] ELSE Append(m, cmd)

RECURSIVE ReadHeader(_, _, _)
ReadHeader(S, header, i) ==
    IF i > Len(header) THEN Out(S, NoneRes)
    ELSE IF ColDefError(header[i]) # "" THEN Out(S, Raise(ColDefError(header[i])))
    ELSE ReadHeader([S EXCEPT !.metadata = StoreAt(@, i, ColDef(header[i]))], header, i + 1)

\* open(self.table + '.txt') binds self.file to a new file object; the one it
\* referred to, if still open, is no longer referenced by the TableScan.
OpenFile(S) ==
    [S EXCEPT !.file = [state |-> "open", pos |-> 0],
              !.orphans = IF S.file.state = "open" THEN @ + 1 ELSE @]

ScanOpen(S) ==
    IF ~table.exists THEN Out(S, Raise("FileNotFoundError"))
    ELSE LET S1 == OpenFile(S)
             S2 == [S1 EXCEPT !.file.pos = 1]
         IN ReadHeader(S2, table.header, 1)

RECURSIVE ReadCells(_, _, _, _)
\* The loop of TableScan.get_next over the fields of one record.
ReadCells(S, fields, i, cells) ==
    IF i > Len(fields) THEN Out(S, RowRes(Row(SubSeq(S.metadata, 1, Len(fields)), cells)))
    ELSE IF i > Len(S.metadata) THEN Out(S, Raise("KeyError"))
    ELSE IF ConvertError(fields[i], S.metadata[i]) # ""
         THEN Out(S, Raise(ConvertError(fields[i], S.metadata[i])))
    ELSE ReadCells(S, fields, i + 1, Append(cells, Convert(fields[i], S.metadata[i])))

ScanNext(S) ==
    IF S.file.state = "none" THEN Out(S, Raise("AttributeError"))
    ELSE IF S.file.state = "closed" THEN Out(S, Raise("ValueError"))
    ELSE IF S.file.pos > Len(table.records) THEN Out(S, NoneRes)
    ELSE ReadCells([S EXCEPT !.file.pos = @ + 1], table.records[S.file.pos], 1, <<>>)

\* A close that releases the handle whatever the state of the file object.
FileClose_again(S) == [S EXCEPT !.file.state = "closed", !.releases = @ + 1]

\* file.close(): releases the handle of an open file, does nothing on a closed one.
FileClose(S) ==
    IF S.file.state = "open"
    THEN [S EXCEPT !.file.state = "closed", !.releases = @ + 1]
    ELSE S

ScanClose(S) ==
    IF S.file.state = "none" THEN Out(S, Raise("AttributeError"))
    ELSE Out(FileClose(S), NoneRes)

----------------------------------------------------------------------------
(* Operators over a downstream operator *)

Filter(name, value) ==
    [op |-> "Filter", name |-> name, value |-> value, columns |-> <<>>,
     offset |-> 0, limit |-> 0, order |-> ""]

Project(columns) ==
    [op |-> "Project", name |-> "", value |-> IntVal(0), columns |-> columns,
     offset |-> 0, limit |-> 0, order |-> ""]

Limit(offset, limit) ==
    [op |-> "Limit", name |-> "", value |-> IntVal(0), columns |-> <<>>,
     offset |-> offset, limit |-> limit, order |-> ""]

Sort(sort_name, sort_order) ==
    [op |-> "Sort", name |-> sort_name, value |-> IntVal(0), columns |-> <<>>,
     offset |-> 0, limit |-> 0, order |-> sort_order]

\* Filter.__filter__: the index of the first column named name, 0 when there is none.
FilterIndex(row, name) ==
    IF \E k \in 1..Len(row.metas) : row.metas[k].name = name
    THEN CHOOSE k \in 1..Len(row.metas) :
            /\ row.metas[k].name = name
            /\ \A j \in 1..(k - 1) : row.metas[j].name # name
    ELSE 0

\* A Filter that compares the row's first cell instead of the named one.
FilterMatch_first_cell(op, row) == ValEq(row.cells[1], op.value)

\* Filter.__filter__ on a row that has the column.
FilterMatch(op, row) == ValEq(row.cells[FilterIndex(row, op.name)], op.value)

\* Project.get_next: mds[name], the last column of the row with that name, 0 when absent.
ProjectIndex(row, name) ==
    IF \E k \in 1..Len(row.metas) : row.metas[k].name = name
    THEN CHOOSE k \in 1..Len(row.metas) :
            /\ row.metas[k].name = name
            /\ \A j \in (k + 1)..Len(row.metas) : row.metas[j].name # name
    ELSE 0

\* A Project that keeps the requested columns in the upstream row's order.
ProjectRow_upstream_order(columns, row) ==
    LET keep == SelectSeq([k \in 1..Len(row.metas) |-> k],
                          LAMBDA k : \E j \in 1..Len(columns) : columns[j] = row.metas[k].name)
    IN Row([i \in 1..Len(keep) |-> row.metas[keep[i]]],
           [i \in 1..Len(keep) |-> row.cells[keep[i]]])

\* Project.get_next on a row that has every requested column.
ProjectRow(columns, row) ==
    Row([i \in 1..Len(columns) |-> row.metas[ProjectIndex(row, columns[i])]],
        [i \in 1..Len(columns) |-> row.cells[ProjectIndex(row, columns[i])]])

\* Limit.get_next: whether a row pulled while the count is idx is returned.
LimitAdmits(op, idx) == idx < op.limit

\* A merge that loses the last row.
merge_sort_dropping(rows, sorts) == SubSeq(rows, 1, Len(rows) - 1)

\* A merge that reverses the rows, and so the rows whose keys tie.
merge_sort_reversing(rows, sorts) == [k \in 1..Len(rows) |-> rows[Len(rows) + 1 - k]]

\* merge_sort(rows, sorts): the body is `pass`, the list is left as it is.
merge_sort(rows, sorts) == rows

RECURSIVE OpenAt(_, _), NextAt(_, _), CloseAt(_, _), FilterLoop(_, _), SortDrain(_, _)

\* A Filter whose loop ends at the first row that does not match.
FilterLoop_break(i, S) ==
    LET d == NextAt(i - 1, S) IN
    IF d.res.kind # "row" THEN d
    ELSE IF FilterIndex(d.res.row, tree[i].name) = 0 THEN Out(d.S, Raise("Exception"))
    ELSE IF FilterMatch(tree[i], d.res.row) THEN d
    ELSE Out(d.S, NoneRes)

\* Filter.get_next at level i.
FilterLoop(i, S) ==
    LET d == NextAt(i - 1, S) IN
    IF d.res.kind # "row" THEN d
    ELSE IF FilterIndex(d.res.row, tree[i].name) = 0 THEN Out(d.S, Raise("Exception"))
    ELSE IF FilterMatch(tree[i], d.res.row) THEN d
    ELSE FilterLoop(i, d.S)

\* Project.get_next at level i.
ProjectNext(i, S) ==
    LET d == NextAt(i - 1, S) IN
    IF d.res.kind # "row" THEN d
    ELSE IF \E k \in 1..Len(tree[i].columns) : ProjectIndex(d.res.row, tree[i].columns[k]) = 0
         THEN Out(d.S, Raise("KeyError"))
    ELSE Out(d.S, RowRes(ProjectRow(tree[i].columns, d.res.row)))

\* A Limit that catches what its downstream raises and reports exhaustion.
LimitNext_catching(i, S) ==
    LET d == NextAt(i - 1, S) IN
    IF d.res.kind = "row" /\ LimitAdmits(tree[i], d.S.index[i])
    THEN Out([d.S EXCEPT !.index[i] = @ + 1], d.res)
    ELSE Out(d.S, NoneRes)

\* Limit.get_next at level i.
LimitNext(i, S) ==
    LET d == NextAt(i - 1, S) IN
    IF d.res.kind = "error" THEN d
    ELSE IF d.res.kind = "row" /\ LimitAdmits(tree[i], d.S.index[i])
         THEN Out([d.S EXCEPT !.index[i] = @ + 1], d.res)
    ELSE Out(d.S, NoneRes)

\* Sort.get_next at level i.
SortNext(i, S) ==
    IF S.index[i] < Len(S.extra[i])
    THEN Out([S EXCEPT !.index[i] = @ + 1], RowRes(S.extra[i][S.index[i] + 1]))
    ELSE Out(S, NoneRes)

\* The loop of Sort.open at level i, then the call of merge_sort.
SortDrain(i, S) ==
    LET d == NextAt(i - 1, S) IN
    IF d.res.kind = "error" THEN d
    ELSE IF d.res.kind = "row"
         THEN SortDrain(i, [d.S EXCEPT !.extra[i] = Append(@, d.res.row)])
    ELSE Out([d.S EXCEPT !.extra[i] =
                  merge_sort(@, <<<<tree[i].name, tree[i].order>>>>)], NoneRes)

\* Sort.open at level i.
SortOpen(i, S) ==
    LET d == OpenAt(i - 1, S) IN
    IF d.res.kind = "error" THEN d ELSE SortDrain(i, d.S)

\* A Sort.close that only propagates the close.
SortClose_keeping(i, S) == CloseAt(i - 1, S)

\* Sort.close at level i.
SortClose(i, S) ==
    CloseAt(i - 1, [S EXCEPT !.index[i] = 0, !.extra[i] = <<>>])

OpenAt(i, S) ==
    IF i = 0 THEN ScanOpen(S)
    ELSE IF tree[i].op = "Sort" THEN SortOpen(i, S)
    ELSE OpenAt(i - 1, S)

NextAt(i, S) ==
    Note(i, IF i = 0 THEN ScanNext(S)
            ELSE CASE tree[i].op = "Filter" -> FilterLoop(i, S)
                   [] tree[i].op = "Project" -> ProjectNext(i, S)
                   [] tree[i].op = "Limit" -> LimitNext(i, S)
                   [] OTHER -> SortNext(i, S))

CloseAt(i, S) ==
    IF i = 0 THEN ScanClose(S)
    ELSE IF tree[i].op = "Sort" THEN SortClose(i, S)
    ELSE CloseAt(i - 1, S)

----------------------------------------------------------------------------
(* The inputs: table files and operator trees *)

RECURSIVE SeqsUpTo(_, _)
\* The sequences of at most n elements of set S.
SeqsUpTo(S, n) ==
    IF n = 0 THEN {<<>>}
    ELSE LET shorter == SeqsUpTo(S, n - 1)
         IN shorter \cup {Append(q, x) : q \in shorter, x \in S}

sh == <<"s", "h">>
bj == <<"b", "j">>

\* The header line "age:int:8 addr:varchar:32", split.
Header == << <<"age", "int", <<"8">>>>, <<"addr", "varchar", <<"3", "2">>>> >>

\* Data records, split into fields: "18 sh", "22 bj", "18 bj", and "x sh",
\* whose first field is no integer.
Records ==
    { << <<"1", "8">>, sh >>, << <<"2", "2">>, bj >>, << <<"1", "8">>, bj >>,
      << <<"x">>, sh >> }

Tables ==
    {[exists |-> TRUE, header |-> Header, records |-> rs] : rs \in SeqsUpTo(Records, MaxRows)}

Filters == {Filter("addr", StrVal(sh)), Filter("age", IntVal(18))}
Projects == {Project(<<"addr", "age", "addr">>)}
Limits == {Limit(0, 0), Limit(0, 2), Limit(1, 1)}
Sorts == {Sort("age", "ASC"), Sort("age", "DESC")}

Operators == Filters \cup Projects \cup Limits \cup Sorts

Trees == {<<>>} \cup {<<a>> : a \in Operators} \cup {<<a, b>> : a \in Operators, b \in Operators}

----------------------------------------------------------------------------
(* The caller *)

Root == Len(tree)

\* The operators and the history as the constructors leave them.
Constructed ==
    /\ file = [state |-> "none", pos |-> 0]
    /\ metadata = <<>>
    /\ index = [i \in 0..Len(tree) |-> 0]
    /\ extra = [i \in 0..Len(tree) |-> <<>>]
    /\ orphans = 0
    /\ releases = 0
    /\ ret = NoneRes
    /\ last = "init"
    /\ ncalls = 0
    /\ emitted = [i \in 0..Len(tree) |-> <<>>]
    /\ sig = [i \in 0..Len(tree) |-> "fresh"]
    /\ pulls = [i \in 0..Len(tree) |-> 0]
    /\ opens = 0
    /\ everOpened = FALSE
    /\ closes = 0
    /\ raised = [i \in 0..Len(tree) |-> ""]
    /\ runs = 0
    /\ firstOut = [rows |-> <<>>, kind |-> ""]

Init ==
    /\ tree \in Trees
    /\ table \in Tables
    /\ Constructed

\* The call `call` on the root ended as o.
Return(call, o) ==
    /\ file' = o.S.file
    /\ metadata' = o.S.metadata
    /\ index' = o.S.index
    /\ extra' = o.S.extra
    /\ orphans' = o.S.orphans
    /\ releases' = o.S.releases
    /\ emitted' = o.S.emitted
    /\ sig' = o.S.sig
    /\ pulls' = o.S.pulls
    /\ raised' = o.S.raised
    /\ ret' = o.res
    /\ last' = call
    /\ ncalls' = ncalls + 1
    /\ UNCHANGED <<tree, table>>

\* The history of a new run starts at open().
Fresh ==
    [Cur EXCEPT !.emitted = [i \in Levels |-> <<>>],
                !.sig = [i \in Levels |-> "fresh"],
                !.pulls = [i \in Levels |-> 0],
                !.raised = [i \in Levels |-> ""]]

\* op.open()
CallOpen ==
    /\ Return("open", OpenAt(Root, Fresh))
    /\ opens' = opens + 1
    /\ everOpened' = TRUE
    /\ closes' = 0

\* op.get_next()
CallNext ==
    /\ Return("next", NextAt(Root, Cur))
    /\ closes' = 0
    /\ UNCHANGED <<opens, everOpened>>

\* op.close()
CallClose ==
    /\ Return("close", CloseAt(Root, Cur))
    /\ opens' = 0
    /\ closes' = closes + 1
    /\ UNCHANGED everOpened

\* A caller that makes the three calls in any order.
Open == ncalls < MaxCalls /\ CallOpen /\ UNCHANGED <<runs, firstOut>>

GetNext == ncalls < MaxCalls /\ CallNext /\ UNCHANGED <<runs, firstOut>>

Close == ncalls < MaxCalls /\ CallClose /\ UNCHANGED <<runs, firstOut>>

\* The runtime finalizes a file object nothing refers to, releasing its handle.
Finalize ==
    /\ orphans > 0
    /\ orphans' = orphans - 1
    /\ releases' = releases + 1
    /\ UNCHANGED <<tree, table, file, metadata, index, extra, ret, last, ncalls,
                   emitted, sig, pulls, opens, everOpened, closes, raised, runs, firstOut>>

Next == Open \/ GetNext \/ Close \/ Finalize

Spec == Init /\ [][Next]_vars

----------------------------------------------------------------------------
(* A caller that follows the protocol: open, get_next until it returns None or
   raises, close; and then the same again on the same operators. *)

tom == <<"t", "o", "m">>
amy == <<"a", "m", "y">>
joe == <<"j", "o", "e">>

\* "id:int:8 name:varchar:16 age:int:8 addr:varchar:32"
PeopleHeader ==
    << <<"id", "int", <<"8">>>>, <<"name", "varchar", <<"1", "6">>>>,
       <<"age", "int", <<"8">>>>, <<"addr", "varchar", <<"3", "2">>>> >>

\* "1 tom 18 sh", "2 amy 22 bj", "3 joe 18 sh"
PeopleRecords ==
    << << <<"1">>, tom, <<"1", "8">>, sh >>,
       << <<"2">>, amy, <<"2", "2">>, bj >>,
       << <<"3">>, joe, <<"1", "8">>, sh >> >>

PeopleTable == [exists |-> TRUE, header |-> PeopleHeader, records |-> PeopleRecords]

\* "age:int:8 c:char:1 d:datetime:8 addr:varchar:32"
TypedHeader ==
    << <<"age", "int", <<"8">>>>, <<"c", "char", <<"1">>>>,
       <<"d", "datetime", <<"8">>>>, <<"addr", "varchar", <<"3", "2">>>> >>

\* "-7 a 2024 sh", "40 b 7 bj"
TypedRecords ==
    << << <<"-", "7">>, <<"a">>, <<"2", "0", "2", "4">>, sh >>,
       << <<"4", "0">>, <<"b">>, <<"7">>, bj >> >>

TablesRun ==
    { PeopleTable,
      [exists |-> TRUE, header |-> PeopleHeader, records |-> <<>>],
      [exists |-> TRUE, header |-> TypedHeader, records |-> TypedRecords],
      \* a record that does not convert: "18 sh", "x sh", "22 bj"
      [exists |-> TRUE, header |-> Header,
       records |-> << << <<"1", "8">>, sh >>, << <<"x">>, sh >>, << <<"2", "2">>, bj >> >>],
      \* records with too few and too many fields, and a blank line: "18", "", "22 bj sh"
      [exists |-> TRUE, header |-> Header,
       records |-> << << <<"1", "8">> >>, <<>>, << <<"2", "2">>, bj, sh >> >>],
      \* headers that do not parse: "age:int:8 addr:text:32" and "age:int:8 addr:varchar"
      [exists |-> TRUE, header |-> << <<"age", "int", <<"8">>>>, <<"addr", "text", <<"3", "2">>>> >>,
       records |-> << << <<"1", "8">>, sh >> >>],
      [exists |-> TRUE, header |-> << <<"age", "int", <<"8">>>>, <<"addr", "varchar">> >>,
       records |-> << << <<"1", "8">>, sh >> >>],
      \* no such file
      [exists |-> FALSE, header |-> <<>>, records |-> <<>>] }

TreesRun ==
    { <<>>,
      <<Filter("addr", StrVal(sh)), Limit(0, 5), Project(<<"name", "addr">>)>>,
      <<Filter("age", IntVal(18)), Filter("addr", StrVal(sh))>>,
      <<Filter("addr", StrVal(sh)), Filter("age", IntVal(18))>>,
      <<Filter("zip", StrVal(sh))>>,
      <<Project(<<"addr", "age">>)>>,
      <<Project(<<"zip">>)>>,
      <<Limit(0, 0)>>,
      <<Limit(0, 1)>>,
      <<Limit(1, 2)>>,
      <<Limit(0, 2), Filter("addr", StrVal(sh))>>,
      <<Sort("age", "DESC")>>,
      <<Sort("zip", "ASC")>>,
      <<Limit(0, 2), Sort("age", "ASC")>>,
      <<Sort("age", "ASC"), Limit(0, 1), Project(<<"age">>)>> }

InitRun ==
    /\ tree \in TreesRun
    /\ table \in TablesRun
    /\ Constructed

RunOpen ==
    /\ runs < MaxRuns
    /\ last \in {"init", "close"}
    /\ CallOpen
    /\ UNCHANGED <<runs, firstOut>>

RunNext ==
    /\ \/ last = "open" /\ ret.kind # "error"
       \/ last = "next" /\ ret.kind = "row"
    /\ CallNext
    /\ UNCHANGED <<runs, firstOut>>

\* The caller closes the tree when it is exhausted, and also after an error.
RunClose ==
    /\ \/ last = "open" /\ ret.kind = "error"
       \/ last = "next" /\ ret.kind # "row"
    /\ CallClose
    /\ runs' = runs + 1
    /\ firstOut' = IF runs = 0 THEN [rows |-> emitted[Root], kind |-> ret.kind] ELSE firstOut

NextRun == RunOpen \/ RunNext \/ RunClose

SpecRun == InitRun /\ [][NextRun]_vars

----------------------------------------------------------------------------
(* Vocabulary of the properties *)

FilterLevels == {i \in 1..Len(tree) : tree[i].op = "Filter"}
ProjectLevels == {i \in 1..Len(tree) : tree[i].op = "Project"}
LimitLevels == {i \in 1..Len(tree) : tree[i].op = "Limit"}
SortLevels == {i \in 1..Len(tree) : tree[i].op = "Sort"}

\* The step is a call of `call` on the root.
Calls(call) == last' = call /\ ncalls' = ncalls + 1

HasColumn(row, name) == \E k \in 1..Len(row.metas) : row.metas[k].name = name

\* The value of the row's column `name`.
KeyOf(row, name) ==
    row.cells[CHOOSE k \in 1..Len(row.metas) : row.metas[k].name = name].v

\* The rows of U at positions [o, o + l).
Window(U, o, l) ==
    SubSeq(U, o + 1, IF o + l < Len(U) THEN o + l ELSE Len(U))

\* A and B hold the same rows the same number of times.
IsPermutation(A, B) ==
    /\ Len(A) = Len(B)
    /\ \A k \in 1..Len(A) :
          Cardinality({j \in 1..Len(A) : A[j] = A[k]})
              = Cardinality({j \in 1..Len(B) : B[j] = A[k]})

\* The rows of U whose column `name` holds the integer key.
WithKey(U, name, key) == SelectSeq(U, LAMBDA r : KeyOf(r, name) = key)

\* The cell of the row's column op.name equals op.value.
Matches(op, row) ==
    \E k \in 1..Len(row.metas) :
        /\ row.metas[k].name = op.name
        /\ row.cells[k].t = op.value.t
        /\ row.cells[k].v = op.value.v

\* out is the upstream row up narrowed and reordered to columns.
Projected(out, up, columns) ==
    /\ Len(out.metas) = Len(columns)
    /\ Len(out.cells) = Len(columns)
    /\ \A j \in 1..Len(columns) :
          \E k \in 1..Len(up.metas) :
              /\ up.metas[k].name = columns[j]
              /\ out.metas[j] = up.metas[k]
              /\ out.cells[j] = up.cells[k]

----------------------------------------------------------------------------
(* Properties *)

\* C1: once a Limit(offset, limit) whose count started at 0 in this run has
\* signalled exhaustion, the rows it returned are the upstream rows at positions
\* [offset, offset + limit), in upstream order.
C1_LimitWindow ==
    \A i \in LimitLevels :
        (opens = 1 /\ index[i] = Len(emitted[i]) /\ sig[i] = "none")
            => emitted[i] = Window(emitted[i - 1], tree[i].offset, tree[i].limit)

\* C2: the rows a Sort returns after open() are ordered by the key: adjacent rows
\* are non-decreasing for ASC and non-increasing for DESC.
C2_SortOrdered ==
    \A i \in SortLevels :
        opens = 1 =>
            \A k \in 1..(Len(emitted[i]) - 1) :
                IF tree[i].order = "ASC"
                THEN KeyOf(emitted[i][k], tree[i].name) <= KeyOf(emitted[i][k + 1], tree[i].name)
                ELSE KeyOf(emitted[i][k], tree[i].name) >= KeyOf(emitted[i][k + 1], tree[i].name)

\* C3: once a Sort that was opened once has signalled exhaustion, the rows it
\* returned are a permutation of the rows its upstream produced.
C3_SortPermutation ==
    \A i \in SortLevels :
        (opens = 1 /\ sig[i] = "none") => IsPermutation(emitted[i], emitted[i - 1])

C3_Witness ==
    \E i \in SortLevels :
        /\ opens = 1 /\ sig[i] = "none"
        /\ Len(emitted[i]) >= 2
        /\ emitted[i][1] # emitted[i][2]

\* C4: a Sort is stable: for every key value, the rows with that key are returned
\* in the order in which the upstream produced them.
C4_SortStable ==
    \A i \in SortLevels :
        (opens = 1 /\ sig[i] = "none") =>
            \A k \in 1..Len(emitted[i - 1]) :
                LET key == KeyOf(emitted[i - 1][k], tree[i].name)
                IN WithKey(emitted[i], tree[i].name, key)
                       = WithKey(emitted[i - 1], tree[i].name, key)

C4_Witness ==
    \E i \in SortLevels :
        /\ opens = 1 /\ sig[i] = "none"
        /\ Len(emitted[i]) = Len(emitted[i - 1])
        /\ \E p, q \in 1..Len(emitted[i - 1]) :
              /\ p < q
              /\ emitted[i - 1][p] # emitted[i - 1][q]
              /\ KeyOf(emitted[i - 1][p], tree[i].name) = KeyOf(emitted[i - 1][q], tree[i].name)

\* C5: the rows a Filter(name = value) has returned are exactly the upstream
\* rows whose cell for name equals value, in upstream order, and it signals
\* exhaustion only when its upstream has.
C5_FilterSelects ==
    \A i \in FilterLevels :
        /\ emitted[i] = SelectSeq(emitted[i - 1], LAMBDA r : Matches(tree[i], r))
        /\ sig[i] = "none" => sig[i - 1] = "none"

C5_Witness ==
    \E i \in FilterLevels :
        /\ sig[i] = "none"
        /\ Len(emitted[i]) >= 1
        /\ Len(emitted[i]) < Len(emitted[i - 1])
        /\ ~Matches(tree[i], emitted[i - 1][1])

\* C6: while every upstream row has the requested columns, a Project has pulled
\* one upstream row per call, its k-th row is the k-th upstream row narrowed and
\* reordered to the requested columns with metadata and cells unchanged, and it
\* signals exhaustion exactly when its upstream does.
C6_ProjectRows ==
    \A i \in ProjectLevels :
        (\A k \in 1..Len(emitted[i - 1]) :
            \A j \in 1..Len(tree[i].columns) : HasColumn(emitted[i - 1][k], tree[i].columns[j]))
        => /\ pulls[i] = pulls[i - 1]
           /\ sig[i] = "none" <=> sig[i - 1] = "none"
           /\ Len(emitted[i]) = Len(emitted[i - 1])
           /\ \A k \in 1..Len(emitted[i]) :
                 Projected(emitted[i][k], emitted[i - 1][k], tree[i].columns)

C6_Witness ==
    \E i \in ProjectLevels :
        /\ sig[i] = "none"
        /\ pulls[i] >= 2
        /\ Len(emitted[i]) >= 1
        /\ emitted[i][1].metas # emitted[i - 1][1].metas

\* C7: in an open tree, once a level's get_next has signalled exhaustion, every
\* later get_next of the root leaves that level signalling exhaustion.
C7_ExhaustedStays ==
    [][\A i \in Levels :
          (opens >= 1 /\ sig[i] = "none" /\ Calls("next")) => sig'[i] = "none"]_vars

\* C8: get_next() with no open() before it, and open() after an open() with no
\* close() in between, are rejected (the call raises, whatever the error is
\* called) and leave the operators' state as it was.
C8_MisuseRejected ==
    [][((Calls("next") /\ opens = 0) \/ (Calls("open") /\ opens >= 1))
          => /\ ret'.kind = "error"
             /\ UNCHANGED <<file, metadata, index, extra>>]_vars

\* C9: close() on a tree that was never opened raises nothing.
C9_CloseUnopened == (last = "close" /\ ~everOpened) => ret.kind # "error"

\* C10: a close() that follows a successful close() of a tree that was opened
\* raises nothing, releases no handle and changes no operator's state.
C10_SecondClose ==
    [][(Calls("close") /\ last = "close" /\ ret.kind # "error" /\ everOpened)
          => /\ ret'.kind # "error"
             /\ releases' = releases
             /\ UNCHANGED <<file, metadata, index, extra, orphans>>]_vars

C10_Witness ==
    /\ closes >= 2
    /\ everOpened
    /\ ret.kind = "none"
    /\ file.state = "closed"
    /\ releases >= 1

----------------------------------------------------------------------------
(* Vocabulary of the properties, continued *)

\* Handles of the operating system that are open: the one TableScan.file refers
\* to and those of file objects nothing refers to.
Held == orphans + (IF file.state = "open" THEN 1 ELSE 0)

\* The decimal numeral of an integer.
RECURSIVE Digits(_)
Digits(n) ==
    IF n < 10 THEN <<DigitChars[n + 1]>>
    ELSE Append(Digits(n \div 10), DigitChars[(n % 10) + 1])

Numeral(n) == IF n < 0 THEN <<"-">> \o Digits(0 - n) ELSE Digits(n)

Numbers == -99..99

\* The table is a header of name:tag:size triples followed by records with one
\* field per column, decimal numerals under the int columns.
WellFormed ==
    /\ table.exists
    /\ \A c \in 1..Len(table.header) :
          /\ Len(table.header[c]) = 3
          /\ table.header[c][2] \in TypeTags
          /\ \E n \in Numbers : Numeral(n) = table.header[c][3]
    /\ \A k \in 1..Len(table.records) :
          /\ Len(table.records[k]) = Len(table.header)
          /\ \A c \in 1..Len(table.header) :
                table.header[c][2] = "int"
                    => \E n \in Numbers : Numeral(n) = table.records[k][c]

\* The cell holds the field as its column's type says: the integer the numeral
\* denotes under int, the text itself under char, varchar and datetime.
Converted(cell, field, tag) ==
    IF tag = "int"
    THEN cell.t = "int" /\ cell.v \in Numbers /\ Numeral(cell.v) = field
    ELSE cell.t = "str" /\ cell.v = field

\* The values of the rows' cells.
CellValues(rows) ==
    [k \in 1..Len(rows) |-> [j \in 1..Len(rows[k].cells) |-> rows[k].cells[j].v]]

ColumnNames(row) == [j \in 1..Len(row.metas) |-> row.metas[j].name]

ScenarioTree ==
    <<Filter("addr", StrVal(sh)), Limit(0, 5), Project(<<"name", "addr">>)>>

----------------------------------------------------------------------------
(* Properties, continued *)

C12_MissingColumnFails ==
    \A i \in 1..Len(tree) :
        /\ (/\ tree[i].op = "Sort"
            /\ last = "open"
            /\ \E k \in 1..Len(emitted[i - 1]) : ~HasColumn(emitted[i - 1][k], tree[i].name))
           => ret.kind = "error"
        /\ (/\ tree[i].op = "Filter"
            /\ sig[i - 1] = "row"
            /\ ~HasColumn(emitted[i - 1][Len(emitted[i - 1])], tree[i].name))
           => sig[i] = "error"
        /\ (/\ tree[i].op = "Project"
            /\ sig[i - 1] = "row"
            /\ \E j \in 1..Len(tree[i].columns) :
                  ~HasColumn(emitted[i - 1][Len(emitted[i - 1])], tree[i].columns[j]))
           => sig[i] = "error"

\* C13: once the TableScan of a well-formed table with N records has signalled
\* exhaustion in a run, it has returned N rows, the k-th holding the fields of the
\* k-th record converted per the type of their columns, under the header's names.
C13_ScanRoundTrip ==
    (WellFormed /\ opens = 1 /\ sig[0] = "none") =>
        /\ Len(emitted[0]) = Len(table.records)
        /\ \A k \in 1..Len(emitted[0]) :
              /\ Len(emitted[0][k].cells) = Len(table.header)
              /\ ColumnNames(emitted[0][k]) = [c \in 1..Len(table.header) |-> table.header[c][1]]
              /\ \A c \in 1..Len(table.header) :
                    Converted(emitted[0][k].cells[c], table.records[k][c], table.header[c][2])

C13_Witness ==
    /\ WellFormed /\ opens = 1 /\ sig[0] = "none"
    /\ Len(emitted[0]) >= 2
    /\ \E c \in 1..Len(table.header) : table.header[c][2] = "datetime"
    /\ \E c \in 1..Len(table.header) : emitted[0][1].cells[c].t = "int" /\ emitted[0][1].cells[c].v < 0

\* C14: under a stack of Filter, Project and Limit, a get_next() of the root in
\* which the TableScan raised ends with that same exception and returns no row.
C14_ErrorPropagates ==
    (SortLevels = {} /\ last = "next" /\ sig[0] = "error") => ret = Raise(raised[0])

C14_Witness ==
    /\ SortLevels = {} /\ Len(tree) = 2
    /\ FilterLevels # {} /\ LimitLevels # {}
    /\ last = "next" /\ sig[0] = "error"
    /\ raised[0] = "ValueError"
    /\ ret = Raise("ValueError")
    /\ Len(emitted[0]) >= 1

\* C15: over the people table, the first run of Project([name, addr]) over
\* Limit(0, 5) over Filter(addr = sh) over the TableScan has returned (tom, sh)
\* and then (joe, sh) when it signals exhaustion.
C15_Scenario ==
    (tree = ScenarioTree /\ table = PeopleTable /\ runs = 0 /\ last = "next" /\ ret.kind = "none")
        => /\ CellValues(emitted[Root]) = << <<tom, sh>>, <<joe, sh>> >>
           /\ \A k \in 1..Len(emitted[Root]) : ColumnNames(emitted[Root][k]) = <<"name", "addr">>

C15_Witness ==
    /\ tree = ScenarioTree /\ table = PeopleTable /\ runs = 0
    /\ last = "next" /\ ret.kind = "none"
    /\ Len(emitted[Root]) = 2
    /\ pulls[Root] = 3

\* C16: the count of a Limit stays within 0..limit, and once it equals limit every
\* get_next() of the Limit in an open tree signals exhaustion.
C16_LimitCap ==
    [][\A i \in LimitLevels :
          /\ index'[i] >= 0 /\ index'[i] <= tree[i].limit
          /\ (opens >= 1 /\ index[i] = tree[i].limit /\ Calls("next") /\ pulls'[i] > pulls[i])
                => sig'[i] = "none"]_vars

\* C17: every row the TableScan returns has as many cells as the header declares
\* columns, and as many metadata entries as cells.
C17_RowWidth ==
    \A k \in 1..Len(emitted[0]) :
        /\ Len(emitted[0][k].cells) = Len(table.header)
        /\ Len(emitted[0][k].metas) = Len(emitted[0][k].cells)

\* C18: a Sort keeps 0 <= index <= len(buffer), its get_next() pulls nothing from
\* its upstream, close() leaves the buffer empty and the index 0, and get_next()
\* on a closed Sort signals exhaustion.
C18_SortMachine ==
    [][\A i \in SortLevels :
          /\ index'[i] >= 0 /\ index'[i] <= Len(extra'[i])
          /\ Calls("next") => pulls'[i - 1] = pulls[i - 1]
          /\ Calls("close") => (extra'[i] = <<>> /\ index'[i] = 0)
          /\ (Calls("next") /\ last = "close" /\ i = Root) => ret' = NoneRes]_vars

C18_Witness ==
    /\ Root \in SortLevels
    /\ everOpened /\ opens = 0
    /\ last = "next" /\ ret = NoneRes
    /\ Len(emitted[Root]) >= 1
    /\ Len(emitted[Root]) < Len(emitted[Root - 1])

\* C19: two stacked Filters have returned exactly the rows of their upstream whose
\* cells match both predicates, in upstream order, whichever Filter is on top, and
\* they signal exhaustion only when their upstream has.
C19_FiltersConjoin ==
    (Len(tree) = 2 /\ FilterLevels = {1, 2}) =>
        /\ emitted[2] = SelectSeq(emitted[0], LAMBDA r : Matches(tree[1], r) /\ Matches(tree[2], r))
        /\ sig[2] = "none" => sig[0] = "none"

C19_Witness ==
    /\ Len(tree) = 2 /\ FilterLevels = {1, 2}
    /\ tree[1] # tree[2]
    /\ sig[2] = "none"
    /\ Len(emitted[2]) >= 1
    /\ \E k \in 1..Len(emitted[0]) :
          Matches(tree[1], emitted[0][k]) # Matches(tree[2], emitted[0][k])

\* C20: when the second run of a tree whose first run ended in exhaustion signals
\* exhaustion, it has returned the same rows as the first run.
C20_SecondRunSame ==
    (runs = 1 /\ firstOut.kind = "none" /\ last = "next" /\ ret.kind = "none")
        => emitted[Root] = firstOut.rows

====
